---- MODULE Spec2Model ----
(***************************************************************************)
(* A model of balatro_env: the action codec and legality mask              *)
(* (action_space.py) and the episode controller (env.py) with the bridge   *)
(* client (client.py) as its nondeterministic environment and the          *)
(* observation tokenizer (obs_tokenizer.py) by the length of its vector    *)
(* and the snapshots it fails on; the tokenizer's feature vector value by  *)
(* value under one caller; and the retry loop of the client's _request.    *)
(*                                                                         *)
(* Python's None / absent dictionary key is the empty tuple <<>>, a        *)
(* present value v is the one-element tuple <<v>>.                         *)
(***************************************************************************)
EXTENDS Integers, Sequences, FiniteSets, TLC

VARIABLES
    \* ---- codec harness: one caller of ActionEncoder ----
    cFirst,     \* "decode" or "encode": the call the caller makes first
    cIdx,       \* <<i>>: the index handed to / obtained from the codec
    cAct,       \* <<a>>: the ActionRequest handed to / obtained from the codec
    cDec,       \* <<r>>: the outcome of decode_action, once called
    cEnc,       \* <<r>>: the outcome of encode_action, once called
    \* ---- mask harness: one caller of get_legal_action_mask ----
    mLegal,     \* legal_actions.actions: the list of LegalAction
    mHand,      \* the hand_size argument of the last call
    mMask,      \* <<mask>>: the mask the last call returned
    \* ---- BalatroEnv: the episode controller ----
    current_state,  \* _current_state: None or <<GameState>>
    current_legal,  \* _current_legal: None or <<LegalActions>>
    step_count,     \* _step_count
    episode_reward, \* _episode_reward, in units of 1 / RewardUnit
    connected,      \* _connected
    bridge,         \* the bridge exchanges of the last call, in order
    ret,            \* what the last call of reset / step returned or raised
    step_calls,     \* the caller's own count of its step calls since its last reset call
    \* ---- tokenizer harness: one caller of ObservationTokenizer ----
    tState,     \* the GameState handed to tokenize_state
    tSeed,      \* the process's string-hash seed (PYTHONHASHSEED)
    tOut,       \* <<r>>: the outcome of tokenize_state, once called
    \* ---- BalatroClient._request: one request ----
    method,         \* the method argument
    retry_count,    \* self.retry_count
    attempt,        \* the number of passes of the retry loop begun so far
    last_error,     \* last_error: None or <<the failure of the last failed attempt>>
    sleeps,         \* the number of time.sleep(retry_delay) calls made
    sent,           \* how each HTTP exchange made so far ended, in order
    outcome         \* <<r>>: what _request returned or raised, once it has

codecVars == <<cFirst, cIdx, cAct, cDec, cEnc>>
maskVars == <<mLegal, mHand, mMask>>
envVars == <<current_state, current_legal, step_count, episode_reward,
             connected, bridge, ret, step_calls>>
tokVars == <<tState, tSeed, tOut>>
clientVars == <<method, retry_count, attempt, last_error, sleeps, sent, outcome>>
vars == <<cFirst, cIdx, cAct, cDec, cEnc, mLegal, mHand, mMask,
          current_state, current_legal, step_count, episode_reward,
          connected, bridge, ret, step_calls,
          tState, tSeed, tOut,
          method, retry_count, attempt, last_error, sleeps, sent, outcome>>

----------------------------------------------------------------------------
(* Optional values *)
None == <<>>
Some(v) == <<v>>
IsSome(o) == o # <<>>
Get(o, default) == IF o = <<>> THEN default ELSE o[1]

(* A call's outcome: a returned value or a raised exception. *)
Return(v) == [error |-> "None", value |-> <<v>>]
Raise(e) == [error |-> e, value |-> <<>>]
Returned(r) == r.error = "None"

----------------------------------------------------------------------------
(* Bounds of the model *)
MaxOutside == 3     \* indices / parameters tried this far outside their range
MaxListLen == 2     \* length of the unsorted card-position lists tried
MaxAvail == 3       \* size of the declared sets of available positions
max_steps == 3      \* BalatroEnv(max_steps=...): the step budget of an episode

----------------------------------------------------------------------------
(* ActionEncoder: class constants and _build_action_space *)
MAX_HAND_SIZE == 10
MAX_JOKERS == 5
MAX_SHOP_SLOTS == 6
MAX_PACK_CHOICES == 5

simple_actions ==
    [k \in {"SHOP_REROLL", "SHOP_END", "SKIP_BLIND", "SKIP_PACK",
            "SORT_HAND_RANK", "SORT_HAND_SUIT"} |->
        CASE k = "SHOP_REROLL" -> 0
          [] k = "SHOP_END" -> 1
          [] k = "SKIP_BLIND" -> 2
          [] k = "SKIP_PACK" -> 3
          [] k = "SORT_HAND_RANK" -> 4
          [] k = "SORT_HAND_SUIT" -> 5]

NumBitmaps == 1024
NumBlinds == 3
play_hand_offset == 10
discard_offset == play_hand_offset + NumBitmaps
shop_buy_offset == discard_offset + NumBitmaps
sell_joker_offset == shop_buy_offset + MAX_SHOP_SLOTS
pack_select_offset == sell_joker_offset + MAX_JOKERS
blind_select_offset == pack_select_offset + MAX_PACK_CHOICES
action_space_size == blind_select_offset + NumBlinds

get_action_space_size == action_space_size

----------------------------------------------------------------------------
(* Bit operations on non-negative integers *)
TestBit(b, i) == (b \div (2 ^ i)) % 2 = 1
SetBit(b, i) == IF TestBit(b, i) THEN b ELSE b + 2 ^ i

(* card_indices_to_bitmap: fold "bitmap |= 1 << (idx - 1)" over the list,   *)
(* skipping every idx outside 1..MAX_HAND_SIZE.                             *)
RECURSIVE BitmapFrom(_, _, _)
BitmapFrom(indices, k, bitmap) ==
    IF k > Len(indices) THEN bitmap
    ELSE BitmapFrom(indices, k + 1,
                    IF 1 <= indices[k] /\ indices[k] <= MAX_HAND_SIZE
                    THEN SetBit(bitmap, indices[k] - 1)
                    ELSE bitmap)

\* a mutant: "1 << idx" in place of "1 << (idx - 1)"
RECURSIVE BitmapFromNoShift(_, _, _)
BitmapFromNoShift(indices, k, bitmap) ==
    IF k > Len(indices) THEN bitmap
    ELSE BitmapFromNoShift(indices, k + 1,
                    IF 1 <= indices[k] /\ indices[k] <= MAX_HAND_SIZE
                    THEN SetBit(bitmap, indices[k])
                    ELSE bitmap)

card_indices_to_bitmap_NoShift(indices) == BitmapFromNoShift(indices, 1, 0)

card_indices_to_bitmap(indices) == BitmapFrom(indices, 1, 0)

(* bitmap_to_card_indices: for i in range(MAX_HAND_SIZE), append i + 1 when *)
(* bit i is set.                                                            *)
RECURSIVE IndicesFrom(_, _, _)
IndicesFrom(bitmap, i, indices) ==
    IF i >= MAX_HAND_SIZE THEN indices
    ELSE IndicesFrom(bitmap, i + 1,
                     IF TestBit(bitmap, i) THEN Append(indices, i + 1)
                     ELSE indices)

bitmap_to_card_indices(bitmap) == IndicesFrom(bitmap, 0, <<>>)

----------------------------------------------------------------------------
(* ActionRequest: a type and a params dictionary (absent keys are None) *)
NoParams ==
    [mode |-> None, card_indices |-> None, slot |-> None,
     joker_index |-> None, choice_index |-> None, option |-> None]

ActionRequest(type, params) == [type |-> type, params |-> params]

(* str.upper() on the mode strings the callers of this model pass *)
Upper(s) ==
    CASE s = "rank" -> "RANK"
      [] s = "suit" -> "SUIT"
      [] s = "Suit" -> "SUIT"
      [] s = "color" -> "COLOR"
      [] OTHER -> s

SimpleActionKinds == {"SHOP_REROLL", "SHOP_END", "SKIP_BLIND", "SKIP_PACK"}

BlindOptions == <<"small", "big", "boss">>

(* options = {"small": 0, "big": 1, "boss": 2}; options.get(option, 0) *)
BlindOptionIndex(option) ==
    CASE option = "small" -> 0
      [] option = "big" -> 1
      [] option = "boss" -> 2
      [] OTHER -> 0

----------------------------------------------------------------------------
(* action.params.get(key, default) *)
\* a mutant: the 1-based index defaults are 0
ParamGet_ZeroDefault(params, key, default) ==
    Get(params[key],
        IF key \in {"slot", "joker_index", "choice_index"} THEN 0 ELSE default)

ParamGet(params, key, default) == Get(params[key], default)

(* ActionEncoder.encode_action *)
encode_action(action) ==
    LET t == action.type
        p == action.params
    IN  CASE t = "SHOP_REROLL" -> Return(simple_actions["SHOP_REROLL"])
          [] t = "SHOP_END" -> Return(simple_actions["SHOP_END"])
          [] t = "SKIP_BLIND" -> Return(simple_actions["SKIP_BLIND"])
          [] t = "SKIP_PACK" -> Return(simple_actions["SKIP_PACK"])
          [] t = "SORT_HAND" ->
                LET key == "SORT_HAND_" \o Upper(ParamGet(p, "mode", "rank"))
                IN  IF key \in DOMAIN simple_actions
                    THEN Return(simple_actions[key])
                    ELSE Raise("KeyError")
          [] t = "PLAY_HAND" ->
                Return(play_hand_offset
                       + card_indices_to_bitmap(ParamGet(p, "card_indices", <<>>)))
          [] t = "DISCARD" ->
                Return(discard_offset
                       + card_indices_to_bitmap(ParamGet(p, "card_indices", <<>>)))
          [] t = "SHOP_BUY" ->
                Return(shop_buy_offset + ParamGet(p, "slot", 1) - 1)
          [] t = "SHOP_SELL_JOKER" ->
                Return(sell_joker_offset + ParamGet(p, "joker_index", 1) - 1)
          [] t = "SELECT_PACK_ITEM" ->
                Return(pack_select_offset + ParamGet(p, "choice_index", 1) - 1)
          [] t = "SELECT_BLIND" ->
                Return(blind_select_offset
                       + BlindOptionIndex(ParamGet(p, "option", "small")))
          [] OTHER -> Raise("ValueError")

(* ActionEncoder.decode_action *)
decode_action(action_idx) ==
    CASE action_idx = simple_actions["SHOP_REROLL"] ->
            Return(ActionRequest("SHOP_REROLL", NoParams))
      [] action_idx = simple_actions["SHOP_END"] ->
            Return(ActionRequest("SHOP_END", NoParams))
      [] action_idx = simple_actions["SKIP_BLIND"] ->
            Return(ActionRequest("SKIP_BLIND", NoParams))
      [] action_idx = simple_actions["SKIP_PACK"] ->
            Return(ActionRequest("SKIP_PACK", NoParams))
      [] action_idx = simple_actions["SORT_HAND_RANK"] ->
            Return(ActionRequest("SORT_HAND", [NoParams EXCEPT !.mode = Some("rank")]))
      [] action_idx = simple_actions["SORT_HAND_SUIT"] ->
            Return(ActionRequest("SORT_HAND", [NoParams EXCEPT !.mode = Some("suit")]))
      [] play_hand_offset <= action_idx /\ action_idx < discard_offset ->
            Return(ActionRequest("PLAY_HAND",
                [NoParams EXCEPT !.card_indices =
                    Some(bitmap_to_card_indices(action_idx - play_hand_offset))]))
      [] discard_offset <= action_idx /\ action_idx < shop_buy_offset ->
            Return(ActionRequest("DISCARD",
                [NoParams EXCEPT !.card_indices =
                    Some(bitmap_to_card_indices(action_idx - discard_offset))]))
      [] shop_buy_offset <= action_idx /\ action_idx < sell_joker_offset ->
            Return(ActionRequest("SHOP_BUY",
                [NoParams EXCEPT !.slot = Some(action_idx - shop_buy_offset + 1)]))
      [] sell_joker_offset <= action_idx /\ action_idx < pack_select_offset ->
            Return(ActionRequest("SHOP_SELL_JOKER",
                [NoParams EXCEPT !.joker_index = Some(action_idx - sell_joker_offset + 1)]))
      [] pack_select_offset <= action_idx /\ action_idx < blind_select_offset ->
            Return(ActionRequest("SELECT_PACK_ITEM",
                [NoParams EXCEPT !.choice_index = Some(action_idx - pack_select_offset + 1)]))
      [] blind_select_offset <= action_idx /\ action_idx < action_space_size ->
            Return(ActionRequest("SELECT_BLIND",
                [NoParams EXCEPT !.option =
                    Some(BlindOptions[action_idx - blind_select_offset + 1])]))
      [] OTHER -> Raise("ValueError")

----------------------------------------------------------------------------
(* Inputs of the codec harness *)
IndexInputs == (0 - MaxOutside) .. (action_space_size - 1 + MaxOutside)

RECURSIVE SortedSeq(_)
SortedSeq(S) ==
    IF S = {} THEN <<>>
    ELSE LET m == CHOOSE x \in S : \A y \in S : x <= y
         IN  <<m>> \o SortedSeq(S \ {m})

SeqsUpTo(S, n) == UNION {[1..k -> S] : k \in 0..n}

\* card position lists: every subset of 1..MAX_HAND_SIZE in ascending order,
\* and short lists in any order, with repeats and out-of-range positions
CardListInputs ==
    {SortedSeq(S) : S \in SUBSET (1..MAX_HAND_SIZE)}
    \cup SeqsUpTo(0..(MAX_HAND_SIZE + 1), MaxListLen)

ModeInputs == {"rank", "suit", "Suit", "color"}
OptionInputs == {"small", "big", "boss", "tiny"}
SlotInputs(max) == (1 - MaxOutside) .. (max + MaxOutside)

ActionInputs ==
    {ActionRequest(t, NoParams) :
        t \in {"SHOP_REROLL", "SHOP_END", "SKIP_BLIND", "SKIP_PACK", "SORT_HAND",
               "PLAY_HAND", "DISCARD", "SHOP_BUY", "SHOP_SELL_JOKER",
               "SELECT_PACK_ITEM", "SELECT_BLIND", "NOT_AN_ACTION"}}
    \cup {ActionRequest("SORT_HAND", [NoParams EXCEPT !.mode = Some(m)]) :
            m \in ModeInputs}
    \cup {ActionRequest(t, [NoParams EXCEPT !.card_indices = Some(l)]) :
            t \in {"PLAY_HAND", "DISCARD"}, l \in CardListInputs}
    \cup {ActionRequest("SHOP_BUY", [NoParams EXCEPT !.slot = Some(k)]) :
            k \in SlotInputs(MAX_SHOP_SLOTS)}
    \cup {ActionRequest("SHOP_SELL_JOKER", [NoParams EXCEPT !.joker_index = Some(k)]) :
            k \in SlotInputs(MAX_JOKERS)}
    \cup {ActionRequest("SELECT_PACK_ITEM", [NoParams EXCEPT !.choice_index = Some(k)]) :
            k \in SlotInputs(MAX_PACK_CHOICES)}
    \cup {ActionRequest("SELECT_BLIND", [NoParams EXCEPT !.option = Some(o)]) :
            o \in OptionInputs}

(* The caller starts from an index (decode first) or an action (encode first) *)
CodecIdle ==
    cFirst = "none" /\ cIdx = None /\ cAct = None /\ cDec = None /\ cEnc = None

MaskIdle == mLegal = <<>> /\ mHand = 8 /\ mMask = None

TokIdle == tState = None /\ tSeed = 0 /\ tOut = None

ClientIdle ==
    /\ method = "GET" /\ retry_count = 0 /\ attempt = 0
    /\ last_error = None /\ sleeps = 0 /\ sent = <<>> /\ outcome = None

\* BalatroEnv.__init__ with wait_for_connection=False: the episode state
NoCall ==
    [call |-> "init", raised |-> "None", obs |-> None, reward |-> None,
     terminated |-> None, truncated |-> None, info |-> None]

EnvIdle ==
    /\ current_state = None
    /\ current_legal = None
    /\ step_count = 0
    /\ step_calls = 0
    /\ episode_reward = 0
    /\ connected = FALSE
    /\ bridge = <<>>
    /\ ret = NoCall

InitCodec ==
    /\ MaskIdle
    /\ EnvIdle
    /\ TokIdle
    /\ ClientIdle
    /\ cDec = None
    /\ cEnc = None
    /\ \/ cFirst = "decode" /\ cIdx \in {Some(i) : i \in IndexInputs} /\ cAct = None
       \/ cFirst = "encode" /\ cAct \in {Some(a) : a \in ActionInputs} /\ cIdx = None

(* decode_action(cIdx); a caller that started from an index hands the      *)
(* decoded request on to encode_action.                                    *)
DecodeAction ==
    /\ IsSome(cIdx)
    /\ cDec = None
    /\ LET r == decode_action(cIdx[1])
       IN  /\ cDec' = Some(r)
           /\ cAct' = IF cFirst = "decode" /\ Returned(r) THEN r.value ELSE cAct
    /\ UNCHANGED <<cFirst, cIdx, cEnc>>
    /\ UNCHANGED <<maskVars, envVars, tokVars, clientVars>>

(* encode_action(cAct); a caller that started from an action hands the     *)
(* index on to decode_action.                                              *)
EncodeAction ==
    /\ IsSome(cAct)
    /\ cEnc = None
    /\ LET r == encode_action(cAct[1])
       IN  /\ cEnc' = Some(r)
           /\ cIdx' = IF cFirst = "encode" /\ Returned(r) THEN r.value ELSE cIdx
    /\ UNCHANGED <<cFirst, cAct, cDec>>
    /\ UNCHANGED <<maskVars, envVars, tokVars, clientVars>>

NextCodec == DecodeAction \/ EncodeAction

SpecCodec == InitCodec /\ [][NextCodec]_vars

----------------------------------------------------------------------------
(* LegalAction: a type and ActionParams; of ActionParams the mask reads     *)
(* card_indices (a dict with the keys available, min_select, max_select),   *)
(* slot, joker_index and choice_index.                                      *)
NoCardIndices == [available |-> None, min_select |-> None, max_select |-> None]

ActionParams ==
    [card_indices |-> None, slot |-> None, joker_index |-> None,
     choice_index |-> None]

LegalAction(type, params) == [type |-> type, params |-> params]

(* Python truthiness of an optional dict and of an optional int *)
TruthyDict(o) == IsSome(o) /\ o[1] # NoCardIndices
TruthyInt(o) == IsSome(o) /\ o[1] # 0

(* Python truthiness of an optional string *)
TruthyStr(o) == IsSome(o) /\ o[1] # ""

Min(a, b) == IF a <= b THEN a ELSE b

(* list(range(1, hand_size + 1)) *)
RangeList(hand_size) == [k \in 1..hand_size |-> k]

\* a mutant: the declared available list is ignored
AvailableOf_HandSize(ci, hand_size) == RangeList(hand_size)

(* params.card_indices.get("available", list(range(1, hand_size + 1))) *)
AvailableOf(ci, hand_size) == Get(ci.available, RangeList(hand_size))

\* a mutant: range(min_select, min(max_select, len(available)))
SelectSizes_Exclusive(min_select, max_select, n) ==
    min_select .. (Min(max_select, n) - 1)

(* range(min_select, min(max_select, len(available)) + 1) *)
SelectSizes(min_select, max_select, n) == min_select .. Min(max_select, n)

(* itertools.combinations(available, size): the sub-lists of available at   *)
(* each set of size list positions, in list order                           *)
Combinations(available, size) ==
    {[k \in 1..size |-> available[SortedSeq(I)[k]]] :
        I \in {J \in SUBSET (1..Len(available)) : Cardinality(J) = size}}

(* the indices the PLAY_HAND / DISCARD branch marks *)
CardSelectionIndices(offset, params, hand_size) ==
    IF TruthyDict(params.card_indices)
    THEN LET ci == params.card_indices[1]
             available == AvailableOf(ci, hand_size)
             min_select == Get(ci.min_select, 1)
             max_select == Get(ci.max_select, 5)
         IN  UNION {{offset + card_indices_to_bitmap(combo) :
                        combo \in Combinations(available, size)} :
                    size \in SelectSizes(min_select, max_select, Len(available))}
    ELSE {}

\* a mutant: the parameter is used as a 0-based position
SlotIndices_ZeroBased(offset, param, max) ==
    IF TruthyInt(param) /\ 1 <= param[1] /\ param[1] <= max
    THEN {offset + param[1]}
    ELSE {}

(* the index the SHOP_BUY / SHOP_SELL_JOKER / SELECT_PACK_ITEM branch marks *)
SlotIndices(offset, param, max) ==
    IF TruthyInt(param) /\ 1 <= param[1] /\ param[1] <= max
    THEN {offset + param[1] - 1}
    ELSE {}

\* a mutant: range(2)
BlindSelectIndices_Two == {blind_select_offset + i : i \in 0..1}

(* for i in range(3): mask[blind_select_offset + i] = True *)
BlindSelectIndices == {blind_select_offset + i : i \in 0..(NumBlinds - 1)}

(* the indices one legal action sets to True *)
MarkedBy(action, hand_size) ==
    LET t == action.type
        params == action.params
    IN  CASE t = "SHOP_REROLL" -> {simple_actions["SHOP_REROLL"]}
          [] t = "SHOP_END" -> {simple_actions["SHOP_END"]}
          [] t = "SKIP_BLIND" -> {simple_actions["SKIP_BLIND"]}
          [] t = "SKIP_PACK" -> {simple_actions["SKIP_PACK"]}
          [] t = "SORT_HAND" ->
                {simple_actions["SORT_HAND_RANK"], simple_actions["SORT_HAND_SUIT"]}
          [] t = "PLAY_HAND" ->
                CardSelectionIndices(play_hand_offset, params, hand_size)
          [] t = "DISCARD" ->
                CardSelectionIndices(discard_offset, params, hand_size)
          [] t = "SHOP_BUY" ->
                SlotIndices(shop_buy_offset, params.slot, MAX_SHOP_SLOTS)
          [] t = "SHOP_SELL_JOKER" ->
                SlotIndices(sell_joker_offset, params.joker_index, MAX_JOKERS)
          [] t = "SELECT_PACK_ITEM" ->
                SlotIndices(pack_select_offset, params.choice_index, MAX_PACK_CHOICES)
          [] t = "SELECT_BLIND" -> BlindSelectIndices
          [] OTHER -> {}

RECURSIVE MaskFrom(_, _, _, _)
MaskFrom(actions, k, hand_size, true) ==
    IF k > Len(actions) THEN true
    ELSE MaskFrom(actions, k + 1, hand_size,
                  true \cup MarkedBy(actions[k], hand_size))

(* ActionEncoder.get_legal_action_mask.  The list of action_space_size      *)
(* booleans is held as its length and the set of indices that are True.     *)
get_legal_action_mask(actions, hand_size) ==
    [len |-> action_space_size, true |-> MaskFrom(actions, 1, hand_size, {})]

----------------------------------------------------------------------------
(* Inputs of the mask harness *)
\* declared available lists: every set of at most MaxAvail positions in
\* ascending order, and short lists in any order, with repeats and with
\* positions outside 1..MAX_HAND_SIZE
AvailableInputs ==
    {SortedSeq(S) : S \in {T \in SUBSET (1..MAX_HAND_SIZE) : Cardinality(T) <= MaxAvail}}
    \cup SeqsUpTo((0..2) \cup {MAX_HAND_SIZE, MAX_HAND_SIZE + 1}, MaxListLen)

CardDictInputs ==
    [available : {None} \cup {Some(l) : l \in AvailableInputs},
     min_select : {None} \cup {Some(n) : n \in 0..2},
     max_select : {None} \cup {Some(n) : n \in 1..MaxAvail}]

CardKinds == {"PLAY_HAND", "DISCARD"}

CardLegalInputs ==
    {LegalAction(t, [ActionParams EXCEPT !.card_indices = ci]) :
        t \in CardKinds, ci \in {None} \cup {Some(d) : d \in CardDictInputs}}

\* the legal actions that are also tried in pairs
SmallLegalInputs ==
    {LegalAction(t, ActionParams) :
        t \in SimpleActionKinds \cup {"SORT_HAND", "SELECT_BLIND", "PLAY_HAND"}}
    \cup {LegalAction("SHOP_BUY", [ActionParams EXCEPT !.slot = o]) :
            o \in {None} \cup {Some(k) : k \in SlotInputs(MAX_SHOP_SLOTS)}}
    \cup {LegalAction("SHOP_SELL_JOKER", [ActionParams EXCEPT !.joker_index = o]) :
            o \in {None} \cup {Some(k) : k \in SlotInputs(MAX_JOKERS)}}
    \cup {LegalAction("SELECT_PACK_ITEM", [ActionParams EXCEPT !.choice_index = o]) :
            o \in {None} \cup {Some(k) : k \in SlotInputs(MAX_PACK_CHOICES)}}
    \cup {LegalAction(t, [ActionParams EXCEPT !.card_indices =
                Some([NoCardIndices EXCEPT !.available = Some(l)])]) :
            t \in CardKinds, l \in SeqsUpTo(1..2, 1)}

LegalSetInputs ==
    {<<>>}
    \cup {<<a>> : a \in CardLegalInputs \cup SmallLegalInputs}
    \cup {<<a, b>> : a \in SmallLegalInputs, b \in SmallLegalInputs}
    \cup {<<LegalAction("PLAY_HAND", [ActionParams EXCEPT !.card_indices = Some(d)]),
            LegalAction("DISCARD", [ActionParams EXCEPT !.card_indices = Some(d)]),
            LegalAction("SORT_HAND", ActionParams)>> : d \in CardDictInputs}

HandSizeInputs == {0, 8, MAX_HAND_SIZE + 1}

InitMask ==
    /\ CodecIdle
    /\ EnvIdle
    /\ TokIdle
    /\ ClientIdle
    /\ mLegal \in LegalSetInputs
    /\ mHand = 8
    /\ mMask = None

(* get_legal_action_mask(legal_actions, hand_size) on the same legal set    *)
GetLegalActionMask ==
    /\ \E h \in HandSizeInputs :
        /\ mHand' = h
        /\ mMask' = Some(get_legal_action_mask(mLegal, h))
    /\ UNCHANGED mLegal
    /\ UNCHANGED <<codecVars, envVars, tokVars, clientVars>>

NextMask == GetLegalActionMask

SpecMask == InitMask /\ [][NextMask]_vars

----------------------------------------------------------------------------
(* GameState: of a snapshot the controller reads the phase, money, ante,    *)
(* the optional blind (name, chips_needed, chips_scored), the optional      *)
(* error and len(hand).                                                     *)
BlindData(name, chips_needed, chips_scored) ==
    [name |-> name, chips_needed |-> chips_needed, chips_scored |-> chips_scored]

BaseBlind == BlindData(Some("Small Blind"), Some(300), 0)

BaseState ==
    [phase |-> "SELECTING_HAND", money |-> 4, ante |-> 1,
     blind |-> Some(BaseBlind), error |-> None, hand_len |-> 3]

BlindInputs ==
    {None,
     Some(BlindData(Some("Small Blind"), Some(300), 2000)),
     Some(BlindData(Some("Big Blind"), Some(300), 0)),
     Some(BlindData(None, Some(300), 0)),
     Some(BlindData(Some(""), Some(300), 0)),
     Some(BlindData(Some("Small Blind"), None, 0))}

\* the snapshots the bridge may send: BaseState, and BaseState with another
\* phase, more money, a higher ante, another blind or an error
Snapshots ==
    {BaseState}
    \cup {[BaseState EXCEPT !.phase = ph] : ph \in {"MENU", "SPLASH", "SHOP"}}
    \cup {[BaseState EXCEPT !.money = 5], [BaseState EXCEPT !.ante = 2],
          [BaseState EXCEPT !.error = Some("bridge error")]}
    \cup {[BaseState EXCEPT !.blind = b] : b \in BlindInputs}

(* LegalActions: the phase it was computed in and the list of actions *)
LegalActions(phase, actions) == [phase |-> phase, actions |-> actions]

\* the legal actions the bridge reports for a snapshot: play, discard and
\* sort while a hand is selected, the shop actions in the shop, none in a menu
LegalFor(s) ==
    LegalActions(s.phase,
        CASE s.phase = "SELECTING_HAND" ->
                LET ci == Some([available |-> Some(RangeList(s.hand_len)),
                                min_select |-> Some(1), max_select |-> Some(5)])
                IN  <<LegalAction("PLAY_HAND", [ActionParams EXCEPT !.card_indices = ci]),
                      LegalAction("DISCARD", [ActionParams EXCEPT !.card_indices = ci]),
                      LegalAction("SORT_HAND", ActionParams)>>
          [] s.phase = "SHOP" ->
                <<LegalAction("SHOP_END", ActionParams),
                  LegalAction("SHOP_BUY", [ActionParams EXCEPT !.slot = Some(1)])>>
          [] OTHER -> <<>>)

\* the action indices the caller may pass to step
StepActionInputs ==
    {simple_actions["SHOP_END"], Cardinality(DOMAIN simple_actions),
     play_hand_offset + 1, action_space_size - 1, action_space_size}

(* Rewards are counted in units of 1 / RewardUnit, the coefficient of one   *)
(* chip: chip_diff / 1000.0 * 0.01                                          *)
RewardUnit == 100000

(* ObservationTokenizer: the slot counts and the features per slot.  Its     *)
(* MAX_HAND_SIZE and MAX_JOKERS have the values of the encoder's.           *)
MAX_CONSUMABLES == 4
MAX_SHOP_ITEMS == 6
scalar_features == 10
card_features == 8
joker_features == 4
consumable_features == 2
shop_features == 3

(* ObservationTokenizer._build_embedding_dims: obs_size *)
obs_size ==
    scalar_features + MAX_HAND_SIZE * card_features + MAX_JOKERS * joker_features
    + MAX_CONSUMABLES * consumable_features + MAX_SHOP_ITEMS * shop_features

(* for i in range(slots): features.extend(...) with width values, from the  *)
(* i-th item when there is one and zeros otherwise                          *)
RECURSIVE PaddedBlock(_, _)
PaddedBlock(slots, width) ==
    IF slots = 0 THEN 0 ELSE width + PaddedBlock(slots - 1, width)

(* An observation is held as the length of the float vector and whether it  *)
(* was made from a snapshot.                                                *)
(* ObservationTokenizer.tokenize_state: max(chips_needed, 1) raises         *)
(* TypeError when the blind has no chips_needed; otherwise ten scalars and  *)
(* the four padded blocks                                                   *)
tokenize_state(state) ==
    IF IsSome(state.blind) /\ state.blind[1].chips_needed = None
    THEN Raise("TypeError")
    ELSE Return([kind |-> "features",
                 len |-> scalar_features
                         + PaddedBlock(MAX_HAND_SIZE, card_features)
                         + PaddedBlock(MAX_JOKERS, joker_features)
                         + PaddedBlock(MAX_CONSUMABLES, consumable_features)
                         + PaddedBlock(MAX_SHOP_ITEMS, shop_features)])

(* BalatroEnv._get_obs *)
get_obs(cs) ==
    IF cs = None THEN Return([kind |-> "zeros", len |-> obs_size])
    ELSE tokenize_state(cs[1])

(* get_legal_action_mask on the legal lists and hand sizes the controller   *)
(* meets (8 is the hand size _get_info passes without a snapshot),          *)
(* computed once                                                            *)
MaskOf ==
    [l \in {LegalFor(s) : s \in Snapshots}, h \in {BaseState.hand_len, 8} |->
        get_legal_action_mask(l.actions, h)]

(* BalatroEnv._get_info *)
get_info(cs, cl, sc, er, conn) ==
    [step_count |-> sc,
     episode_reward |-> er,
     connected |-> conn,
     phase |-> IF cs # None THEN Some(cs[1].phase) ELSE None,
     hand_size |-> IF cs # None THEN Some(cs[1].hand_len) ELSE None,
     action_mask |->
        IF cl # None
        THEN Some(MaskOf[cl[1], IF cs # None THEN cs[1].hand_len ELSE 8])
        ELSE None,
     error |-> None]

\* a mutant: a decrease of chips_scored is subtracted
compute_reward_SignedChips(prev_state, new_state) ==
    IF prev_state = None THEN 0
    ELSE LET prev == prev_state[1]
             money_diff == new_state.money - prev.money
             prev_chips == IF IsSome(prev.blind) THEN prev.blind[1].chips_scored ELSE 0
             new_chips == IF IsSome(new_state.blind)
                          THEN new_state.blind[1].chips_scored ELSE 0
             prev_blind_name == IF IsSome(prev.blind) THEN prev.blind[1].name ELSE None
             new_blind_name == IF IsSome(new_state.blind)
                               THEN new_state.blind[1].name ELSE None
         IN  money_diff * RewardUnit
             + (new_chips - prev_chips)
             + (IF TruthyStr(prev_blind_name) /\ TruthyStr(new_blind_name)
                   /\ prev_blind_name # new_blind_name
                THEN 10 * RewardUnit ELSE 0)
             + (IF new_state.ante > prev.ante THEN 100 * RewardUnit ELSE 0)
             - (IF new_state.phase = "MENU" /\ prev.phase # "MENU"
                THEN 100 * RewardUnit ELSE 0)

(* BalatroEnv._compute_reward *)
compute_reward(prev_state, new_state) ==
    IF prev_state = None THEN 0
    ELSE LET prev == prev_state[1]
             money_diff == new_state.money - prev.money
             prev_chips == IF IsSome(prev.blind) THEN prev.blind[1].chips_scored ELSE 0
             new_chips == IF IsSome(new_state.blind)
                          THEN new_state.blind[1].chips_scored ELSE 0
             chip_diff == new_chips - prev_chips
             prev_blind_name == IF IsSome(prev.blind) THEN prev.blind[1].name ELSE None
             new_blind_name == IF IsSome(new_state.blind)
                               THEN new_state.blind[1].name ELSE None
         IN  money_diff * RewardUnit
             + (IF chip_diff > 0 THEN chip_diff ELSE 0)
             + (IF TruthyStr(prev_blind_name) /\ TruthyStr(new_blind_name)
                   /\ prev_blind_name # new_blind_name
                THEN 10 * RewardUnit ELSE 0)
             + (IF new_state.ante > prev.ante THEN 100 * RewardUnit ELSE 0)
             - (IF new_state.phase = "MENU" /\ prev.phase # "MENU"
                THEN 100 * RewardUnit ELSE 0)

\* a mutant: a return to the menu is not terminal
is_terminal_SplashOnly(state, sc) ==
    \/ state.phase = "SPLASH"
    \/ sc >= max_steps
    \/ TruthyStr(state.error)

(* BalatroEnv._is_terminal *)
is_terminal(state, sc) ==
    \/ state.phase \in {"MENU", "SPLASH"}
    \/ sc >= max_steps
    \/ TruthyStr(state.error)

(* The outcome of a call: the returned tuple, or the exception raised *)
Returns(call, obs, reward, terminated, truncated, info) ==
    IF Returned(obs)
    THEN [call |-> call, raised |-> "None", obs |-> obs.value, reward |-> reward,
          terminated |-> terminated, truncated |-> truncated, info |-> Some(info)]
    ELSE [call |-> call, raised |-> obs.error, obs |-> None, reward |-> None,
          terminated |-> None, truncated |-> None, info |-> None]

Raises(call, e) ==
    [call |-> call, raised |-> e, obs |-> None, reward |-> None,
     terminated |-> None, truncated |-> None, info |-> None]

(* BalatroEnv.__init__: _connected is True when it waited for the bridge *)
InitEnv ==
    /\ CodecIdle
    /\ MaskIdle
    /\ TokIdle
    /\ ClientIdle
    /\ current_state = None
    /\ current_legal = None
    /\ step_count = 0
    /\ step_calls = 0
    /\ episode_reward = 0
    /\ connected \in BOOLEAN
    /\ bridge = <<>>
    /\ ret = NoCall

\* the ways client.reset fails: the bridge answers {"error": ...}, or the
\* POST or one of the two GETs that follow it does not get through
ResetFailures ==
    {<<"reset:error">>, <<"reset:unreachable">>,
     <<"reset:ok", "state:unreachable">>,
     <<"reset:ok", "state:ok", "legal:unreachable">>}

\* a mutant: reset keeps the step counter and the cumulative reward
ResetOk_KeepsEpisode ==
    \E s \in Snapshots :
        /\ step_calls' = 0
        /\ current_state' = Some(s)
        /\ current_legal' = Some(LegalFor(s))
        /\ bridge' = <<"reset:ok", "state:ok", "legal:ok">>
        /\ ret' = Returns("reset", get_obs(Some(s)), None, None, None,
                          get_info(Some(s), Some(LegalFor(s)), step_count,
                                   episode_reward, connected))
        /\ UNCHANGED <<step_count, episode_reward, connected>>
        /\ UNCHANGED <<codecVars, maskVars, tokVars, clientVars>>

(* BalatroEnv.reset, with client.reset succeeding *)
ResetOk ==
    \E s \in Snapshots :
        /\ step_count' = 0
        /\ step_calls' = 0
        /\ episode_reward' = 0
        /\ current_state' = Some(s)
        /\ current_legal' = Some(LegalFor(s))
        /\ bridge' = <<"reset:ok", "state:ok", "legal:ok">>
        /\ ret' = Returns("reset", get_obs(Some(s)), None, None, None,
                          get_info(Some(s), Some(LegalFor(s)), 0, 0, connected))
        /\ UNCHANGED connected
        /\ UNCHANGED <<codecVars, maskVars, tokVars, clientVars>>

(* BalatroEnv.reset, with client.reset raising BalatroConnectionError: the  *)
(* except branch fetches the current state and legal actions                *)
ResetFallback ==
    \E f \in ResetFailures :
        /\ step_count' = 0
        /\ step_calls' = 0
        /\ episode_reward' = 0
        /\ UNCHANGED connected
        /\ UNCHANGED <<codecVars, maskVars, tokVars, clientVars>>
        /\ \/ /\ bridge' = f \o <<"state:unreachable">>
              /\ UNCHANGED <<current_state, current_legal>>
              /\ ret' = Raises("reset", "BalatroConnectionError")
           \/ \E s \in Snapshots :
              /\ bridge' = f \o <<"state:ok", "legal:unreachable">>
              /\ current_state' = Some(s)
              /\ UNCHANGED current_legal
              /\ ret' = Raises("reset", "BalatroConnectionError")
           \/ \E s \in Snapshots :
              /\ bridge' = f \o <<"state:ok", "legal:ok">>
              /\ current_state' = Some(s)
              /\ current_legal' = Some(LegalFor(s))
              /\ ret' = Returns("reset", get_obs(Some(s)), None, None, None,
                                get_info(Some(s), Some(LegalFor(s)), 0, 0, connected))

\* step is still called once after the budget is used up
CanStep == step_count <= max_steps

\* the inputs decode_action turns into a request; what the bridge then does
\* does not depend on which of them was sent
DecodableInputs == {action \in StepActionInputs : Returned(decode_action(action))}

(* BalatroEnv.step: decode_action raises; _step_count is already incremented *)
StepBadIndex ==
    /\ CanStep
    /\ \E action \in StepActionInputs :
        /\ ~Returned(decode_action(action))
        /\ step_count' = step_count + 1
        /\ step_calls' = step_calls + 1
        /\ bridge' = <<>>
        /\ ret' = Raises("step", decode_action(action).error)
    /\ UNCHANGED <<current_state, current_legal, episode_reward, connected>>
    /\ UNCHANGED <<codecVars, maskVars, tokVars, clientVars>>

\* a mutant: truncated only once the budget is exceeded
is_truncated_After(sc) == sc > max_steps

(* truncated = self._step_count >= self.max_steps *)
is_truncated(sc) == sc >= max_steps

(* the tail of step after the try block: reward, termination, return *)
StepReturn(prev_state, cs, cl, sc) ==
    LET reward == compute_reward(prev_state, cs[1])
        er == episode_reward + reward
    IN  /\ episode_reward' = er
        /\ ret' = Returns("step", get_obs(cs), Some(reward),
                          Some(is_terminal(cs[1], sc)), Some(is_truncated(sc)),
                          get_info(cs, cl, sc, er, connected))
        /\ UNCHANGED connected

\* a mutant: the lost step is not counted in the info it returns
StepConnectionLost_NotCounted(cs, cl, sc) ==
    /\ connected' = FALSE
    /\ ret' = Returns("step", get_obs(cs), Some((0 - 100) * RewardUnit),
                      Some(TRUE), Some(FALSE),
                      [get_info(cs, cl, sc - 1, episode_reward, FALSE)
                          EXCEPT !.error = Some("BalatroConnectionError")])
    /\ UNCHANGED episode_reward

(* the except branch of step: the connection is lost *)
StepConnectionLost(cs, cl, sc) ==
    /\ connected' = FALSE
    /\ ret' = Returns("step", get_obs(cs), Some((0 - 100) * RewardUnit),
                      Some(TRUE), Some(FALSE),
                      [get_info(cs, cl, sc, episode_reward, FALSE)
                          EXCEPT !.error = Some("BalatroConnectionError")])
    /\ UNCHANGED episode_reward

(* BalatroEnv.step: the bridge accepts the action (result.ok and            *)
(* result.state); result.legal may be missing                               *)
StepAccepted ==
    /\ CanStep
    /\ DecodableInputs # {}
    /\ \E s \in Snapshots : \E l \in {None, Some(LegalFor(s))} :
        /\ step_count' = step_count + 1
        /\ step_calls' = step_calls + 1
        /\ bridge' = <<"action:ok">>
        /\ current_state' = Some(s)
        /\ current_legal' = l
        /\ StepReturn(current_state, Some(s), l, step_count + 1)
    /\ UNCHANGED <<codecVars, maskVars, tokVars, clientVars>>

(* BalatroEnv.step: the bridge rejects the action (not result.ok, or no     *)
(* result.state) and the state and legal actions are fetched again          *)
StepRejected ==
    /\ CanStep
    /\ DecodableInputs # {}
    /\ \E s \in Snapshots :
        /\ step_count' = step_count + 1
        /\ step_calls' = step_calls + 1
        /\ bridge' = <<"action:rejected", "state:ok", "legal:ok">>
        /\ current_state' = Some(s)
        /\ current_legal' = Some(LegalFor(s))
        /\ StepReturn(current_state, Some(s), Some(LegalFor(s)), step_count + 1)
    /\ UNCHANGED <<codecVars, maskVars, tokVars, clientVars>>

(* BalatroEnv.step: client.execute_action raises BalatroConnectionError *)
StepUnreachable ==
    /\ CanStep
    /\ DecodableInputs # {}
    /\ step_count' = step_count + 1
    /\ step_calls' = step_calls + 1
    /\ bridge' = <<"action:unreachable">>
    /\ UNCHANGED <<current_state, current_legal>>
    /\ StepConnectionLost(current_state, current_legal, step_count + 1)
    /\ UNCHANGED <<codecVars, maskVars, tokVars, clientVars>>

(* BalatroEnv.step: the action is rejected and the re-fetch raises          *)
(* BalatroConnectionError, in get_state or in get_legal_actions             *)
StepRefetchUnreachable ==
    /\ CanStep
    /\ DecodableInputs # {}
    /\ step_count' = step_count + 1
    /\ step_calls' = step_calls + 1
    /\ \/ /\ bridge' = <<"action:rejected", "state:unreachable">>
          /\ UNCHANGED <<current_state, current_legal>>
          /\ StepConnectionLost(current_state, current_legal, step_count + 1)
       \/ \E s \in Snapshots :
          /\ bridge' = <<"action:rejected", "state:ok", "legal:unreachable">>
          /\ current_state' = Some(s)
          /\ UNCHANGED current_legal
          /\ StepConnectionLost(Some(s), current_legal, step_count + 1)
    /\ UNCHANGED <<codecVars, maskVars, tokVars, clientVars>>

Next ==
    \/ ResetOk
    \/ ResetFallback
    \/ StepBadIndex
    \/ StepAccepted
    \/ StepRejected
    \/ StepUnreachable
    \/ StepRefetchUnreachable

Spec == InitEnv /\ [][Next]_vars

----------------------------------------------------------------------------
(* Claims about the codec, checked under SpecCodec *)

\* the documented parameter of each kind that has one
RequiredKey(t) ==
    CASE t = "SORT_HAND" -> "mode"
      [] t \in {"PLAY_HAND", "DISCARD"} -> "card_indices"
      [] t = "SHOP_BUY" -> "slot"
      [] t = "SHOP_SELL_JOKER" -> "joker_index"
      [] t = "SELECT_PACK_ITEM" -> "choice_index"
      [] t = "SELECT_BLIND" -> "option"

SimpleKinds == SimpleActionKinds
ParamKinds == {"SORT_HAND", "PLAY_HAND", "DISCARD", "SHOP_BUY", "SHOP_SELL_JOKER",
               "SELECT_PACK_ITEM", "SELECT_BLIND"}

SeqToSet(l) == {l[k] : k \in 1..Len(l)}

\* the documented domain of the structured actions
InDocumentedDomain(a) ==
    \/ a.type \in SimpleKinds /\ a.params = NoParams
    \/ /\ a.type \in ParamKinds
       /\ IsSome(a.params[RequiredKey(a.type)])
       /\ LET v == a.params[RequiredKey(a.type)][1]
          IN  CASE a.type = "SORT_HAND" -> v \in {"rank", "suit"}
                [] a.type \in {"PLAY_HAND", "DISCARD"} ->
                        SeqToSet(v) \subseteq 1..10
                [] a.type = "SHOP_BUY" -> v \in 1..6
                [] a.type = "SHOP_SELL_JOKER" -> v \in 1..5
                [] a.type = "SELECT_PACK_ITEM" -> v \in 1..5
                [] a.type = "SELECT_BLIND" -> v \in {"small", "big", "boss"}

\* same kind and same parameters, card position lists compared as sets
SameAction(a, b) ==
    /\ a.type = b.type
    /\ IF a.type \in {"PLAY_HAND", "DISCARD"}
       THEN /\ IsSome(a.params.card_indices)
            /\ IsSome(b.params.card_indices)
            /\ SeqToSet(a.params.card_indices[1]) = SeqToSet(b.params.card_indices[1])
       ELSE a.params = b.params

RequiredParamAbsent(a) ==
    a.type \in ParamKinds /\ a.params[RequiredKey(a.type)] = None

\* C1 (as claimed): every index i in [0, ACTION_SPACE_SIZE) is decoded, and
\* encoding the decoded action gives i back.
C1_IndexRoundTrip ==
    (cFirst = "decode" /\ cIdx[1] \in 0..(get_action_space_size - 1)) =>
        /\ IsSome(cDec) => Returned(cDec[1])
        /\ IsSome(cDec) => (IsSome(cEnc) => cEnc[1] = Return(cIdx[1]))

\* C2 (as claimed): decode_action returns an action for exactly the indices
\* in [0, ACTION_SPACE_SIZE) and fails for every index outside.
C2_DecodeTotal ==
    (cFirst = "decode" /\ IsSome(cDec)) =>
        (Returned(cDec[1]) <=>
            (0 <= cIdx[1] /\ cIdx[1] < get_action_space_size))

\* C3 (as claimed): the regions are contiguous from 0 in the documented order
\* with sizes 6, 1024, 1024, 6, 5, 5, 3, for a total of 2073.
C3_Layout ==
    IsSome(cDec) =>
    /\ {simple_actions[k] : k \in DOMAIN simple_actions} = 0..5
    /\ play_hand_offset = 6
    /\ discard_offset = play_hand_offset + 1024
    /\ shop_buy_offset = discard_offset + 1024
    /\ sell_joker_offset = shop_buy_offset + 6
    /\ pack_select_offset = sell_joker_offset + 5
    /\ blind_select_offset = pack_select_offset + 5
    /\ action_space_size = blind_select_offset + 3
    /\ action_space_size = 2073

\* C4: an action of a documented kind with parameters in the documented
\* domain is encoded, the index is decoded, and the decoded action has the
\* same kind and parameters (card positions as a set).
C4_ActionRoundTrip ==
    (cFirst = "encode" /\ InDocumentedDomain(cAct[1])) =>
        /\ IsSome(cEnc) => Returned(cEnc[1])
        /\ IsSome(cDec) => /\ Returned(cDec[1])
                           /\ SameAction(cDec[1].value[1], cAct[1])

\* C4 happens: an unsorted position list went through encode and decode and
\* came back in ascending order.
C4_Witness ==
    /\ cFirst = "encode"
    /\ IsSome(cDec)
    /\ cAct[1] = ActionRequest("DISCARD", [NoParams EXCEPT !.card_indices = Some(<<10, 3>>)])
    /\ cDec[1].value[1].params.card_indices = Some(<<3, 10>>)

DefaultAction(t) ==
    ActionRequest(t,
        [NoParams EXCEPT ![RequiredKey(t)] =
            Some(CASE t = "SORT_HAND" -> "rank"
                   [] t \in {"PLAY_HAND", "DISCARD"} -> <<>>
                   [] t \in {"SHOP_BUY", "SHOP_SELL_JOKER", "SELECT_PACK_ITEM"} -> 1
                   [] t = "SELECT_BLIND" -> "small")])

----------------------------------------------------------------------------
(* Claims about the legality mask, checked under SpecMask *)

\* the documented bitmap of a set of positions: bit (i - 1) set iff i selected
RECURSIVE PositionsBitmap(_)
PositionsBitmap(S) ==
    IF S = {} THEN 0
    ELSE LET i == CHOOSE x \in S : TRUE
         IN  2 ^ (i - 1) + PositionsBitmap(S \ {i})

RECURSIVE Binomial(_, _)
Binomial(n, k) ==
    IF k < 0 \/ k > n THEN 0
    ELSE IF k = 0 \/ k = n THEN 1
    ELSE Binomial(n - 1, k - 1) + Binomial(n - 1, k)

RECURSIVE SumBinomial(_, _, _)
SumBinomial(n, lo, hi) ==
    IF lo > hi THEN 0 ELSE Binomial(n, lo) + SumBinomial(n, lo + 1, hi)

NoRepeats(l) == Cardinality(SeqToSet(l)) = Len(l)

RegionOffset(t) == IF t = "PLAY_HAND" THEN play_hand_offset ELSE discard_offset

\* the legal set is one PLAY_HAND / DISCARD action that declares a set of
\* available positions within 1..10 and bounds min_select <= max_select
OnlyCardSelection(legal) ==
    /\ Len(legal) = 1
    /\ legal[1].type \in CardKinds
    /\ IsSome(legal[1].params.card_indices)
    /\ LET ci == legal[1].params.card_indices[1]
       IN  /\ IsSome(ci.available)
           /\ NoRepeats(ci.available[1])
           /\ SeqToSet(ci.available[1]) \subseteq 1..10
           /\ IsSome(ci.min_select)
           /\ IsSome(ci.max_select)
           /\ ci.min_select[1] <= ci.max_select[1]

\* C6: for such a legal set the mask is true at exactly the indices
\* region_offset + bitmap(S), S a subset of available with
\* min_select <= |S| <= max_select, and false everywhere else, so the number
\* of true entries is the sum of C(|available|, k) over that range.
C6_CardMaskExact ==
    (IsSome(mMask) /\ OnlyCardSelection(mLegal)) =>
        LET ci == mLegal[1].params.card_indices[1]
            A == SeqToSet(ci.available[1])
            lo == ci.min_select[1]
            hi == ci.max_select[1]
        IN  /\ mMask[1].len = get_action_space_size
            /\ mMask[1].true =
                {RegionOffset(mLegal[1].type) + PositionsBitmap(S) :
                    S \in {T \in SUBSET A : lo <= Cardinality(T) /\ Cardinality(T) <= hi}}
            /\ Cardinality(mMask[1].true) = SumBinomial(Cardinality(A), lo, hi)

\* C6 happens: PLAY_HAND with available [1, 2, 3], min_select 1, max_select 2
\* gave a mask with C(3,1) + C(3,2) = 6 true entries.
C6_Witness ==
    /\ IsSome(mMask)
    /\ mLegal = <<LegalAction("PLAY_HAND", [ActionParams EXCEPT !.card_indices =
            Some([available |-> Some(<<1, 2, 3>>), min_select |-> Some(1),
                  max_select |-> Some(2)])])>>
    /\ Cardinality(mMask[1].true) = 6

\* C7: for a legal set holding only SELECT_BLIND the mask has length
\* ACTION_SPACE_SIZE and exactly 3 true entries, the last 3 indices of the
\* action space, whatever hand_size is.
C7_BlindMask ==
    (IsSome(mMask) /\ Len(mLegal) = 1 /\ mLegal[1].type = "SELECT_BLIND") =>
        /\ mMask[1].len = get_action_space_size
        /\ Cardinality(mMask[1].true) = 3
        /\ mMask[1].true = (get_action_space_size - 3) .. (get_action_space_size - 1)
        /\ mMask[1].true = blind_select_offset .. (blind_select_offset + 2)

\* C7 happens: the mask of [SELECT_BLIND] was computed with hand_size 11.
C7_Witness ==
    /\ IsSome(mMask)
    /\ mLegal = <<LegalAction("SELECT_BLIND", ActionParams)>>
    /\ mHand = MAX_HAND_SIZE + 1
    /\ blind_select_offset \in mMask[1].true

\* the PLAY_HAND / DISCARD actions of the set that carry card_indices
CardActions(legal) ==
    {k \in 1..Len(legal) :
        legal[k].type \in CardKinds /\ TruthyDict(legal[k].params.card_indices)}

\* every such action declares its available positions, and there is one
DeclaresAvailable(legal) ==
    /\ CardActions(legal) # {}
    /\ \A k \in CardActions(legal) :
            IsSome(legal[k].params.card_indices[1].available)

\* the positions some action of kind t declares available
DeclaredPositions(legal, t) ==
    UNION {SeqToSet(legal[k].params.card_indices[1].available[1]) :
            k \in {j \in CardActions(legal) : legal[j].type = t}}

\* the positions selected by the marked indices of kind t's region
MarkedPositions(mask, t) ==
    UNION {SeqToSet(bitmap_to_card_indices(i - RegionOffset(t))) :
            i \in {j \in mask.true :
                    RegionOffset(t) <= j /\ j < RegionOffset(t) + NumBitmaps}}

\* C8: when the PLAY_HAND / DISCARD actions declare available, a second call
\* with any other hand_size returns the same mask, and no marked selection
\* holds a position that is not declared available.
C8_AvailableAuthoritative ==
    /\ [][(IsSome(mMask) /\ DeclaresAvailable(mLegal)) => mMask' = mMask]_vars
    /\ []((IsSome(mMask) /\ DeclaresAvailable(mLegal)) =>
            \A t \in CardKinds :
                MarkedPositions(mMask[1], t) \subseteq DeclaredPositions(mLegal, t))

\* C8 happens: available [2, 5] was declared and the mask was computed with
\* hand_size 11; the selection {2, 3} within 1..hand_size is not marked.
C8_Witness ==
    /\ IsSome(mMask)
    /\ mHand = MAX_HAND_SIZE + 1
    /\ mLegal = <<LegalAction("DISCARD", [ActionParams EXCEPT !.card_indices =
            Some([NoCardIndices EXCEPT !.available = Some(<<2, 5>>)])])>>
    /\ discard_offset + 18 \in mMask[1].true
    /\ discard_offset + 6 \notin mMask[1].true

----------------------------------------------------------------------------
(* Claims about the controller, checked under Spec *)

\* the last call was a step during which a request to the bridge did not get
\* through: the submission, or a GET of the re-fetch after a rejected action
StepLostConnection ==
    /\ ret.call = "step"
    /\ bridge # <<>>
    /\ bridge[Len(bridge)] \in
            {"action:unreachable", "state:unreachable", "legal:unreachable"}

\* the last call was a step that went through to the bridge and returned
StepCompleted ==
    /\ ret.call = "step"
    /\ ret.raised = "None"
    /\ bridge # <<>>
    /\ ~StepLostConnection

\* C9 (as claimed): a step that loses the connection, in the submission or in
\* the re-fetch after a rejected action, does not raise and returns reward
\* exactly -100.0, terminated true, truncated false and an error in info,
\* whatever the step counter and the last snapshot are.
C9_ConnectionLostReturn ==
    StepLostConnection =>
        /\ ret.raised = "None"
        /\ ret.reward = Some((0 - 100) * RewardUnit)
        /\ ret.terminated = Some(TRUE)
        /\ ret.truncated = Some(FALSE)
        /\ IsSome(ret.info[1].error)

\* C10 (as claimed): on a step without connectivity failure, terminated is
\* true exactly when the new snapshot's phase is MENU or SPLASH or the new
\* snapshot carries an error; reaching the step budget does not set it.
C10_TerminatedIndependent ==
    StepCompleted =>
        ret.terminated =
            Some(\/ current_state[1].phase \in {"MENU", "SPLASH"}
                 \/ IsSome(current_state[1].error))

\* C11: on a step call that goes through to the bridge and returns, truncated
\* is false while the call is one of the first max_steps - 1 calls since the
\* last reset, and true when it is the max_steps-th call.
C11_Truncation ==
    (StepCompleted /\ step_calls <= max_steps) =>
        ret.truncated = Some(step_calls = max_steps)

\* C11 happens: the max_steps-th step call since reset returned a running
\* snapshot (no terminal phase, no error) with truncated true.
C11_Witness ==
    /\ StepCompleted
    /\ step_calls = max_steps
    /\ current_state[1].phase = "SELECTING_HAND"
    /\ current_state[1].error = None
    /\ ret.truncated = Some(TRUE)

\* the outcome r is a step that returned terminated or truncated
DoneOutcome(r) ==
    /\ r.call = "step"
    /\ r.raised = "None"
    /\ (r.terminated = Some(TRUE) \/ r.truncated = Some(TRUE))

\* the outcome r is a step that returned neither terminated nor truncated
RunningOutcome(r) ==
    /\ r.call = "step"
    /\ r.raised = "None"
    /\ r.terminated = Some(FALSE)
    /\ r.truncated = Some(FALSE)

\* C12 (as claimed): once a step has returned terminated or truncated, the
\* step call made next, with no reset in between, does not return a running
\* outcome (terminated false and truncated false).
C12_DoneAbsorbing ==
    [][(DoneOutcome(ret) /\ step_calls' = step_calls + 1) => ~RunningOutcome(ret')]_vars

\* the last GET /state of the bridge exchange e was answered with a snapshot
StateFetched(e) ==
    \E k \in 1..Len(e) :
        /\ e[k] = "state:ok"
        /\ \A j \in (k + 1)..Len(e) : e[j] \notin {"state:ok", "state:unreachable"}

\* the last call was a reset that received a snapshot from the bridge
ResetFetched == ret.call = "reset" /\ StateFetched(bridge)

\* C13: a reset that fetched a snapshot, from whatever controller state it
\* was called, leaves the step counter 0, the cumulative reward 0 and that
\* snapshot stored (the info it returns reports all three); the reward of the
\* step that follows is computed against the stored reset snapshot.
C13_ResetStartsEpisode ==
    /\ [](ResetFetched =>
            /\ step_count = 0
            /\ episode_reward = 0
            /\ IsSome(current_state)
            /\ ret.raised = "None" =>
                    /\ ret.info[1].step_count = 0
                    /\ ret.info[1].episode_reward = 0
                    /\ ret.info[1].phase = Some(current_state[1].phase))
    /\ [][(ResetFetched /\ step_calls' = 1 /\ StepCompleted') =>
            /\ ret'.reward = Some(compute_reward(current_state, current_state'[1]))
            /\ episode_reward' = ret'.reward[1]]_vars

\* C13 happens: the first step after a reset earned exactly the money gained
\* over the reset snapshot, so a reset snapshot was the previous snapshot.
C13_Witness ==
    /\ StepCompleted
    /\ step_calls = 1
    /\ current_state[1].money = BaseState.money + 1
    /\ ret.reward = Some(RewardUnit)
    /\ episode_reward = RewardUnit

\* the last call was a reset that the bridge refused ({"error": ...}) and
\* whose fallback GET /state and GET /legal were both answered
ResetRefused ==
    /\ ret.call = "reset"
    /\ bridge = <<"reset:error", "state:ok", "legal:ok">>

\* C14 (as claimed): a reset that the bridge reports it cannot perform does
\* not fail: it adopts the bridge's current snapshot and legal actions and
\* returns an observation and an info with step counter 0 and cumulative
\* reward 0.
C14_ResetFallback ==
    ResetRefused =>
        /\ ret.raised = "None"
        /\ IsSome(ret.obs)
        /\ IsSome(current_state)
        /\ current_legal = Some(LegalFor(current_state[1]))
        /\ ret.info[1].step_count = 0
        /\ ret.info[1].episode_reward = 0
        /\ ret.info[1].phase = Some(current_state[1].phase)

\* C15: the step counter equals the number of step calls made since the last
\* reset, and so does the step_count of every info returned, whether the
\* step was accepted, rejected or lost the connection.
C15_StepCounter ==
    /\ step_count = step_calls
    /\ IsSome(ret.info) => ret.info[1].step_count = step_calls

\* C15 happens: the second step call since reset lost the connection after a
\* rejected action and returned an info with step_count 2.
C15_Witness ==
    /\ StepLostConnection
    /\ bridge[1] = "action:rejected"
    /\ step_calls = 2
    /\ IsSome(ret.info)
    /\ ret.info[1].step_count = 2

\* the fields of a snapshot the reward is about; an absent blind counts as
\* chips_scored 0 and name null
ChipsScored(st) == IF IsSome(st.blind) THEN st.blind[1].chips_scored ELSE 0
BlindName(st) == IF IsSome(st.blind) THEN st.blind[1].name ELSE None

Max(a, b) == IF a >= b THEN a ELSE b

\* the reward with a blind bonus that is granted when Named holds of both names
RewardWith(Named(_), prev, new) ==
    (new.money - prev.money) * RewardUnit
    + Max(0, ChipsScored(new) - ChipsScored(prev))
    + (IF Named(BlindName(prev)) /\ Named(BlindName(new))
          /\ BlindName(prev) # BlindName(new)
       THEN 10 * RewardUnit ELSE 0)
    + (IF new.ante > prev.ante THEN 100 * RewardUnit ELSE 0)
    - (IF prev.phase # "MENU" /\ new.phase = "MENU" THEN 100 * RewardUnit ELSE 0)

\* a step call was made, it went through to the bridge and returned, and a
\* snapshot was stored before it
RewardedStep ==
    /\ step_calls' = step_calls + 1
    /\ StepCompleted'
    /\ IsSome(current_state)

\* C16 (as claimed): the reward of such a step is the money gained, plus
\* 0.00001 per chip gained (a decrease counts 0), plus 10 if the blind name
\* changed from a non-null value to a different non-null value, plus 100 if
\* the ante rose, minus 100 if the phase moved from non-MENU to MENU.
C16_RewardAsClaimed ==
    [][RewardedStep =>
        ret'.reward = Some(RewardWith(IsSome, current_state[1], current_state'[1]))]_vars

\* C16 (amended): the same, with the blind bonus granted when the name changed
\* from a non-empty value to a different non-empty value; a null or an empty
\* name earns no bonus.
C16_RewardFunction ==
    [][RewardedStep =>
        ret'.reward = Some(RewardWith(TruthyStr, current_state[1], current_state'[1]))]_vars

\* C16 happens: a step returned reward -1.0, the money having dropped by one
\* with nothing else gained.
C16_Witness ==
    /\ StepCompleted
    /\ step_calls > 0
    /\ current_state[1].money = BaseState.money
    /\ ret.reward = Some((0 - 1) * RewardUnit)

\* the reward of the transition prev -> new apart from the game-over term:
\* what the same transition earns when the phase does not change
RewardWithoutPenalty(prev, new) ==
    RewardWith(TruthyStr, prev, [new EXCEPT !.phase = prev.phase])

\* C17: a step that went through to the bridge and took the phase to MENU is
\* terminated; coming from a non-MENU phase its reward is the other terms
\* minus 100, coming from MENU (MENU to MENU) it carries no penalty.
C17_GameOver ==
    [][(RewardedStep /\ current_state'[1].phase = "MENU") =>
        /\ ret'.terminated = Some(TRUE)
        /\ ret'.reward =
            Some(RewardWithoutPenalty(current_state[1], current_state'[1])
                 - (IF current_state[1].phase # "MENU" THEN 100 * RewardUnit ELSE 0))]_vars

\* C17 happens: a step within the budget reached MENU from another phase and
\* returned terminated with reward -100.0.
C17_Witness ==
    /\ StepCompleted
    /\ 0 < step_calls /\ step_calls < max_steps
    /\ current_state[1].phase = "MENU"
    /\ ret.terminated = Some(TRUE)
    /\ ret.reward = Some((0 - 100) * RewardUnit)

\* C18 (as claimed): the info returned by every reset and every step holds an
\* action_mask, a boolean vector of length get_action_space_size().
C18_InfoHasMask ==
    IsSome(ret.info) =>
        /\ IsSome(ret.info[1].action_mask)
        /\ ret.info[1].action_mask[1].len = get_action_space_size

\* C19 (as claimed): tokenize_state does not fail on the stored snapshot,
\* whichever optional fields it lacks, and yields a vector of length
\* 10 + 10*8 + 5*4 + 4*2 + 6*3 = 136.
C19_TokenizerTotal ==
    IsSome(current_state) =>
        /\ Returned(tokenize_state(current_state[1]))
        /\ tokenize_state(current_state[1]).value[1].len = 10 + 10*8 + 5*4 + 4*2 + 6*3

----------------------------------------------------------------------------
(* Claims about the index-parameterized kinds of the mask, checked under SpecMask *)

SlotKinds == {"SHOP_BUY", "SHOP_SELL_JOKER", "SELECT_PACK_ITEM"}

\* the region of an index-parameterized kind: where it starts and its size
SlotOffset(t) ==
    CASE t = "SHOP_BUY" -> shop_buy_offset
      [] t = "SHOP_SELL_JOKER" -> sell_joker_offset
      [] t = "SELECT_PACK_ITEM" -> pack_select_offset

SlotRegionSize(t) ==
    CASE t = "SHOP_BUY" -> 6
      [] t = "SHOP_SELL_JOKER" -> 5
      [] t = "SELECT_PACK_ITEM" -> 5

\* the parameter a legal action of an index-parameterized kind declares
DeclaredSlot(a) ==
    CASE a.type = "SHOP_BUY" -> a.params.slot
      [] a.type = "SHOP_SELL_JOKER" -> a.params.joker_index
      [] a.type = "SELECT_PACK_ITEM" -> a.params.choice_index

\* the legal set holds an action of kind t that declares parameter k
Declares(legal, t, k) ==
    \E j \in 1..Len(legal) : legal[j].type = t /\ DeclaredSlot(legal[j]) = Some(k)

\* the indices the claim has marked for a legal set
DeclaredSlotIndices(legal) ==
    UNION {{SlotOffset(t) + k - 1 :
                k \in {n \in 1..SlotRegionSize(t) : Declares(legal, t, n)}} :
            t \in SlotKinds}

\* C20: in the region of each index-parameterized kind the mask is true at
\* region_offset + k - 1 exactly when the legal set holds an action of that
\* kind declaring k, for k in the region; and a legal set of such actions
\* alone marks no other index, so a parameter outside the region marks
\* nothing, in that region or any other.
C20_SlotMask ==
    IsSome(mMask) =>
        /\ \A t \in SlotKinds : \A k \in 1..SlotRegionSize(t) :
                (SlotOffset(t) + k - 1 \in mMask[1].true) <=> Declares(mLegal, t, k)
        /\ (\A j \in 1..Len(mLegal) : mLegal[j].type \in SlotKinds) =>
                mMask[1].true = DeclaredSlotIndices(mLegal)

\* C20 happens: SHOP_BUY declared slot 6 and SHOP_SELL_JOKER declared joker
\* 6, one past its region; only the last SHOP_BUY index is marked.
C20_Witness ==
    /\ IsSome(mMask)
    /\ mLegal = <<LegalAction("SHOP_BUY", [ActionParams EXCEPT !.slot = Some(6)]),
                  LegalAction("SHOP_SELL_JOKER",
                              [ActionParams EXCEPT !.joker_index = Some(6)])>>
    /\ mMask[1].true = {shop_buy_offset + 5}

----------------------------------------------------------------------------
(* Further claims about the controller, checked under Spec *)

\* a step call is made whose action the bridge rejects and whose re-fetch of
\* the state and the legal actions is answered
RejectedStep ==
    /\ step_calls' = step_calls + 1
    /\ bridge' = <<"action:rejected", "state:ok", "legal:ok">>

\* what the claim says of such a step, apart from its not raising: the
\* re-fetched snapshot and legal actions are adopted, the step is counted,
\* the reward is the one between the pre-step and the re-fetched snapshot and
\* is accumulated, terminated and truncated are those of the re-fetched
\* snapshot and the new count
RejectedStepOutcome ==
    /\ IsSome(current_state')
    /\ current_legal' = Some(LegalFor(current_state'[1]))
    /\ step_count' = step_count + 1
    /\ ret'.info[1].step_count = step_count + 1
    /\ ret'.reward = Some(compute_reward(current_state, current_state'[1]))
    /\ episode_reward' = episode_reward + ret'.reward[1]
    /\ ret'.terminated = Some(is_terminal(current_state'[1], step_count'))
    /\ (current_state'[1].phase \in {"MENU", "SPLASH"} => ret'.terminated = Some(TRUE))
    /\ ret'.truncated = Some(step_count' >= max_steps)

\* C21 (as claimed): a step whose action the bridge rejects without
\* connectivity loss raises nothing, adopts the re-fetched state and legal
\* actions, counts toward the budget and returns the reward between the
\* pre-step and the re-fetched snapshot, with terminated and truncated
\* evaluated on the re-fetched snapshot.
C21_RejectedStep ==
    [][RejectedStep => (ret'.raised = "None" /\ RejectedStepOutcome)]_vars

----------------------------------------------------------------------------
(* ObservationTokenizer: the feature vector, value by value *)

RECURSIVE GCD(_, _)
GCD(a, b) == IF b = 0 THEN a ELSE GCD(b, a % b)

(* A float feature n / d, held as the reduced fraction; 0.0 whatever d      *)
Ratio(n, d) ==
    IF n = 0 THEN [f |-> "ratio", num |-> 0, den |-> 1]
    ELSE [f |-> "ratio", num |-> n \div GCD(n, d), den |-> d \div GCD(n, d)]

Zero == Ratio(0, 1)
One == Ratio(1, 1)

(* math.log10(max(x, 1)) / 12.0 *)
Log10Ratio(x) ==
    IF x <= 1 THEN Zero ELSE [f |-> "log10", num |-> x, den |-> 12]

(* [0.0] * width *)
Zeros(width) == [k \in 1..width |-> Zero]

(* ObservationTokenizer.VOCAB *)
VOCAB == [enhancement |-> 15, joker |-> 200, consumable |-> 100]

(* ObservationTokenizer.RANK_MAP, SUIT_MAP, EDITION_MAP and seal_map *)
RANK_MAP ==
    [r \in {"2", "3", "4", "5", "6", "7", "8", "9", "10",
            "Jack", "Queen", "King", "Ace", "J", "Q", "K", "A"} |->
        CASE r = "2" -> 2 [] r = "3" -> 3 [] r = "4" -> 4 [] r = "5" -> 5
          [] r = "6" -> 6 [] r = "7" -> 7 [] r = "8" -> 8 [] r = "9" -> 9
          [] r = "10" -> 10
          [] r \in {"Jack", "J"} -> 11 [] r \in {"Queen", "Q"} -> 12
          [] r \in {"King", "K"} -> 13 [] r \in {"Ace", "A"} -> 14]

SUIT_MAP == [s \in {"Hearts", "Diamonds", "Clubs", "Spades"} |->
    CASE s = "Hearts" -> 1 [] s = "Diamonds" -> 2 [] s = "Clubs" -> 3 [] s = "Spades" -> 4]

EDITION_MAP == [e \in {"foil", "holo", "polychrome", "negative"} |->
    CASE e = "foil" -> 1 [] e = "holo" -> 2 [] e = "polychrome" -> 3 [] e = "negative" -> 4]

seal_map == [e \in {"Gold", "Red", "Blue", "Purple"} |->
    CASE e = "Gold" -> 1 [] e = "Red" -> 2 [] e = "Blue" -> 3 [] e = "Purple" -> 4]

(* ObservationTokenizer.PHASE_MAP *)
PHASE_MAP ==
    [ph \in {"MENU", "SPLASH", "SELECTING_HAND", "HAND_PLAYED", "DRAW_TO_HAND",
             "BLIND_SELECT", "SHOP", "PACK_OPENING", "UNKNOWN"} |->
        CASE ph = "MENU" -> 0 [] ph = "SPLASH" -> 1 [] ph = "SELECTING_HAND" -> 2
          [] ph = "HAND_PLAYED" -> 3 [] ph = "DRAW_TO_HAND" -> 4
          [] ph = "BLIND_SELECT" -> 5 [] ph = "SHOP" -> 6
          [] ph = "PACK_OPENING" -> 7 [] ph = "UNKNOWN" -> 8]

(* dict.get(key, 0) *)
MapGet(map, key) == IF key \in DOMAIN map THEN map[key] ELSE 0

(* int(card.rank) inside try / except (ValueError, TypeError): rank = 0,    *)
(* for the decimal strings up to "15"                                       *)
Decimals ==
    <<"0", "1", "2", "3", "4", "5", "6", "7", "8", "9", "10", "11", "12",
      "13", "14", "15">>

IntOrZero(str) ==
    IF \E k \in DOMAIN Decimals : Decimals[k] = str
    THEN (CHOOSE k \in DOMAIN Decimals : Decimals[k] = str) - 1
    ELSE 0

(* hash(str): 0 for the empty string, otherwise a value fixed by the        *)
(* process's hash seed; it may be negative                                  *)
HashedStrings ==
    <<"j_joker", "Joker", "c_fool", "The Fool", "joker", "tarot", "unknown",
      "m_bonus", "Bonus">>

hash(seed, str) ==
    IF str = "" THEN 0
    ELSE LET k == CHOOSE i \in DOMAIN HashedStrings : HashedStrings[i] = str
         IN  (k * 7919 + seed * 104729) * (2 * seed + 1) - 60000 * seed

(* a or b or "" for optional strings *)
FirstTruthy(a, b) ==
    IF TruthyStr(a) THEN a[1] ELSE IF TruthyStr(b) THEN b[1] ELSE ""

(* schemas.CardData, JokerData, ConsumableData, ShopItem: the fields read *)
CardData(rank, suit, edition, enhancement, seal, debuffed, highlighted, hand_index) ==
    [rank |-> rank, suit |-> suit, edition |-> edition,
     enhancement |-> enhancement, seal |-> seal, debuffed |-> debuffed,
     highlighted |-> highlighted, hand_index |-> hand_index]

JokerData(name, key, rarity, sell_cost, ability) ==
    [name |-> name, key |-> key, rarity |-> rarity, sell_cost |-> sell_cost,
     ability |-> ability]

ConsumableData(name, key) == [name |-> name, key |-> key]

ShopItem(cost, type) == [cost |-> cost, type |-> type]

(* ObservationTokenizer.tokenize_card *)
tokenize_card(seed, card) ==
    LET mapped == IF TruthyStr(card.rank) THEN MapGet(RANK_MAP, card.rank[1]) ELSE 0
        rank == IF TruthyStr(card.rank) /\ mapped = 0
                THEN IntOrZero(card.rank[1]) ELSE mapped
        suit == IF TruthyStr(card.suit) THEN MapGet(SUIT_MAP, card.suit[1]) ELSE 0
        edition == IF TruthyStr(card.edition)
                   THEN MapGet(EDITION_MAP, card.edition[1]) ELSE 0
        enhancement == IF TruthyStr(card.enhancement)
                       THEN hash(seed, card.enhancement[1]) % VOCAB.enhancement
                       ELSE 0
        seal == IF TruthyStr(card.seal) THEN MapGet(seal_map, card.seal[1]) ELSE 0
    IN  <<Ratio(rank, 14), Ratio(suit, 4), Ratio(edition, 4),
          Ratio(enhancement, VOCAB.enhancement), Ratio(seal, 4),
          IF card.debuffed THEN One ELSE Zero,
          IF card.highlighted THEN One ELSE Zero,
          Ratio(IF TruthyInt(card.hand_index) THEN card.hand_index[1] ELSE 0,
                MAX_HAND_SIZE)>>

(* ObservationTokenizer.tokenize_joker *)
tokenize_joker(seed, joker) ==
    LET joker_id == hash(seed, FirstTruthy(joker.key, joker.name)) % VOCAB.joker
    IN  <<Ratio(joker_id, VOCAB.joker),
          Ratio(IF TruthyInt(joker.rarity) THEN joker.rarity[1] ELSE 1, 4),
          Ratio(joker.sell_cost, 20),
          IF joker.ability THEN One ELSE Zero>>

(* tokenize_state, the body of the consumables loop *)
tokenize_consumable(seed, cons) ==
    LET cons_id == hash(seed, FirstTruthy(cons.key, cons.name)) % VOCAB.consumable
    IN  <<Ratio(cons_id, VOCAB.consumable), One>>

(* tokenize_state, the body of the shop loop *)
tokenize_shop_item(seed, item, money) ==
    LET type_hash == hash(seed, item.type) % 10
    IN  <<Ratio(type_hash, 10), Ratio(item.cost, 50),
          IF item.cost <= money THEN One ELSE Zero>>

\* a mutant: the loop runs over the items, not over the slots
RECURSIVE PadLoop_OverItems(_, _, _, _)
PadLoop_OverItems(toks, i, max, zeros) ==
    IF i >= Len(toks) THEN <<>>
    ELSE toks[i + 1] \o PadLoop_OverItems(toks, i + 1, max, zeros)

(* for i in range(max): if i < len(items): features.extend(toks[i])         *)
(* else: features.extend(zeros); from pass i on                             *)
RECURSIVE PadLoop(_, _, _, _)
PadLoop(toks, i, max, zeros) ==
    IF i >= max THEN <<>>
    ELSE (IF i < Len(toks) THEN toks[i + 1] ELSE zeros)
         \o PadLoop(toks, i + 1, max, zeros)

(* tokenize_state: the list `features`, or the TypeError of                 *)
(* max(chips_needed, 1) when the blind has no chips_needed                  *)
tokenize_features(seed, state) ==
    IF IsSome(state.blind) /\ state.blind[1].chips_needed = None
    THEN Raise("TypeError")
    ELSE
    LET chips_needed == IF IsSome(state.blind) THEN state.blind[1].chips_needed[1] ELSE 0
        chips_scored == IF IsSome(state.blind) THEN state.blind[1].chips_scored ELSE 0
        shop_items == IF IsSome(state.shop) THEN state.shop[1] ELSE <<>>
        scalars ==
            <<Ratio(IF state.phase \in DOMAIN PHASE_MAP THEN PHASE_MAP[state.phase] ELSE 8, 10), Ratio(Min(state.money, 500), 500),
              Ratio(state.ante, 8), Ratio(state.round, 32),
              Ratio(state.hands_remaining, 5), Ratio(state.discards_remaining, 5),
              Log10Ratio(chips_needed), Log10Ratio(chips_scored),
              Ratio(state.deck_size, 52), Ratio(state.discard_size, 52)>>
    IN  Return(
          scalars
          \o PadLoop([k \in DOMAIN state.hand |-> tokenize_card(seed, state.hand[k])],
                     0, MAX_HAND_SIZE, Zeros(card_features))
          \o PadLoop([k \in DOMAIN state.jokers |-> tokenize_joker(seed, state.jokers[k])],
                     0, MAX_JOKERS, Zeros(joker_features))
          \o PadLoop([k \in DOMAIN state.consumables |->
                        tokenize_consumable(seed, state.consumables[k])],
                     0, MAX_CONSUMABLES, Zeros(consumable_features))
          \o PadLoop([k \in DOMAIN shop_items |->
                        tokenize_shop_item(seed, shop_items[k], state.money)],
                     0, MAX_SHOP_ITEMS, Zeros(shop_features)))

----------------------------------------------------------------------------
(* The tokenizer's caller: one state, one call of tokenize_state *)

MaxBeyond == 2      \* items tried beyond the slot count of a sequence

\* the lengths tried for a sequence with max slots
LenInputs(max) == {0, 1, max, max + 1, max + MaxBeyond}

NullCard == CardData(None, None, None, None, None, FALSE, FALSE, None)

CardAt(k) ==
    CardData(Some(CASE k % 3 = 0 -> "Ace" [] k % 3 = 1 -> Decimals[(k % 16) + 1]
                    [] OTHER -> "Joker"),
             IF k % 2 = 0 THEN Some("Spades") ELSE None,
             IF k % 4 = 1 THEN Some("foil") ELSE None,
             IF k % 5 = 0 THEN Some("m_bonus") ELSE None,
             IF k % 4 = 2 THEN Some("Red") ELSE None,
             k % 2 = 1, k % 3 = 0, Some(k))

JokerAt(k) ==
    JokerData(IF k % 2 = 0 THEN Some("Joker") ELSE None,
              IF k % 3 = 0 THEN Some("j_joker") ELSE None,
              IF k % 2 = 0 THEN Some(k % 4) ELSE None,
              k, k % 2 = 0)

ConsumableAt(k) ==
    ConsumableData(IF k % 2 = 0 THEN Some("The Fool") ELSE None,
                   IF k % 3 = 0 THEN Some("c_fool") ELSE None)

ShopItemAt(k) ==
    ShopItem(2 * k, CASE k % 3 = 0 -> "joker" [] k % 3 = 1 -> "tarot" [] OTHER -> "unknown")

HandInputs ==
    {[k \in 1..n |-> CardAt(k)] : n \in LenInputs(MAX_HAND_SIZE)}
    \cup {[k \in 1..n |-> IF k = 1 THEN NullCard ELSE CardAt(k)] : n \in {1, MAX_HAND_SIZE + 1}}

JokerInputs == {[k \in 1..n |-> JokerAt(k)] : n \in LenInputs(MAX_JOKERS)}

ConsumableInputs == {[k \in 1..n |-> ConsumableAt(k)] : n \in LenInputs(MAX_CONSUMABLES)}

ShopInputs ==
    {None} \cup {Some([k \in 1..n |-> ShopItemAt(k)]) : n \in LenInputs(MAX_SHOP_ITEMS)}

HashSeeds == {0, 1}

\* the GameState fields that tokenize_state reads
TokBaseState ==
    [phase |-> "SHOP", money |-> 4, ante |-> 1, round |-> 2,
     hands_remaining |-> 4, discards_remaining |-> 3,
     blind |-> Some(BaseBlind), deck_size |-> 44, discard_size |-> 0,
     hand |-> <<>>, jokers |-> <<>>, consumables |-> <<>>, shop |-> None]

TokStateInputs ==
    {[TokBaseState EXCEPT !.hand = h, !.jokers = j, !.consumables = c,
                          !.shop = sh, !.blind = b] :
        h \in HandInputs, j \in JokerInputs, c \in ConsumableInputs,
        sh \in ShopInputs,
        b \in {None, Some(BaseBlind), Some(BlindData(Some("Small Blind"), None, 0))}}

InitTok ==
    /\ CodecIdle
    /\ MaskIdle
    /\ EnvIdle
    /\ ClientIdle
    /\ tState \in {Some(st) : st \in TokStateInputs}
    /\ tSeed \in HashSeeds
    /\ tOut = None

\* the caller tokenizes its state
TokenizeState ==
    /\ tOut = None
    /\ tOut' = Some(tokenize_features(tSeed, tState[1]))
    /\ UNCHANGED <<tState, tSeed>>
    /\ UNCHANGED <<codecVars, maskVars, envVars, clientVars>>

NextTok == TokenizeState

SpecTok == InitTok /\ [][NextTok]_vars

\* the values of the output that make slot j of a block of slots that
\* starts after offset values, each slot width values wide
SlotOf(out, offset, width, j) ==
    SubSeq(out, offset + (j - 1) * width + 1, offset + j * width)

\* slot j holds the features of the j-th item when there is one and zeros
\* otherwise, for each of the max slots
SlotsHold(out, offset, width, max, toks) ==
    \A j \in 1..max :
        SlotOf(out, offset, width, j)
            = IF j <= Len(toks) THEN toks[j] ELSE Zeros(width)

HandOffset == scalar_features
JokerOffset == HandOffset + MAX_HAND_SIZE * card_features
ConsumableOffset == JokerOffset + MAX_JOKERS * joker_features
ShopOffset == ConsumableOffset + MAX_CONSUMABLES * consumable_features

ShopItemsOf(state) == IF IsSome(state.shop) THEN state.shop[1] ELSE <<>>

\* C22: in the output of tokenize_state, slot j of the hand (10 slots),
\* joker (5), consumable (4) and shop (6) blocks holds the features of the
\* j-th item when the sequence has at least j items and zeros otherwise;
\* the output has no other values after the scalars, so items beyond the
\* slot count are dropped; with all four sequences empty every value after
\* the scalars is zero.
C22_PaddedSlots ==
    (IsSome(tOut) /\ Returned(tOut[1])) =>
        LET st == tState[1]
            out == tOut[1].value[1]
        IN  /\ Len(out) = ShopOffset + MAX_SHOP_ITEMS * shop_features
            /\ Len(out) = obs_size
            /\ SlotsHold(out, HandOffset, card_features, MAX_HAND_SIZE,
                         [k \in DOMAIN st.hand |-> tokenize_card(tSeed, st.hand[k])])
            /\ SlotsHold(out, JokerOffset, joker_features, MAX_JOKERS,
                         [k \in DOMAIN st.jokers |-> tokenize_joker(tSeed, st.jokers[k])])
            /\ SlotsHold(out, ConsumableOffset, consumable_features, MAX_CONSUMABLES,
                         [k \in DOMAIN st.consumables |->
                            tokenize_consumable(tSeed, st.consumables[k])])
            /\ SlotsHold(out, ShopOffset, shop_features, MAX_SHOP_ITEMS,
                         [k \in DOMAIN ShopItemsOf(st) |->
                            tokenize_shop_item(tSeed, ShopItemsOf(st)[k], st.money)])
            /\ (st.hand = <<>> /\ st.jokers = <<>> /\ st.consumables = <<>>
                /\ ShopItemsOf(st) = <<>>)
               => \A k \in (scalar_features + 1)..Len(out) : out[k] = Zero

\* a state with more cards than hand slots, fewer jokers than joker slots
\* and no shop has been tokenized
C22_Witness ==
    /\ IsSome(tOut) /\ Returned(tOut[1])
    /\ Len(tState[1].hand) > MAX_HAND_SIZE
    /\ Len(tState[1].jokers) = 1
    /\ tState[1].consumables = <<>>
    /\ tState[1].shop = None
    /\ tOut[1].value[1][HandOffset + 1] # Zero
    /\ tOut[1].value[1][JokerOffset + joker_features + 1] = Zero

----------------------------------------------------------------------------
(* BalatroClient._request: the retry loop, one pass per step *)

MaxRetry == 3       \* the largest retry_count tried (the default of BalatroClient)

MethodInputs == {"GET", "POST", "PUT"}

InitClient ==
    /\ CodecIdle
    /\ MaskIdle
    /\ EnvIdle
    /\ TokIdle
    /\ method \in MethodInputs
    /\ retry_count \in 0..MaxRetry
    /\ attempt = 0
    /\ last_error = None
    /\ sleeps = 0
    /\ sent = <<>>
    /\ outcome = None

\* a mutant: one pass more than retry_count
InRange_Inclusive(i, n) == 0 <= i /\ i <= n

(* i in range(n) *)
InRange(i, n) == 0 <= i /\ i < n

\* the loop is at the head of a pass: `attempt` passes are over and nothing
\* has been returned or raised
AtLoopHead == outcome = None /\ InRange(attempt, retry_count)

(* the raise after the loop *)
FailedToConnect == Raise("BalatroConnectionError: Failed to connect")

(* raise BalatroConnectionError(f"HTTP error: {e}") *)
HTTPErrorRaised == Raise("BalatroConnectionError: HTTP error")

\* for attempt in range(0): the loop has no pass, the raise after it is reached
RequestNoPass ==
    /\ outcome = None
    /\ attempt = 0
    /\ ~InRange(0, retry_count)
    /\ outcome' = Some(FailedToConnect)
    /\ UNCHANGED <<method, retry_count, attempt, last_error, sleeps, sent>>
    /\ UNCHANGED <<codecVars, maskVars, envVars, tokVars>>

\* a method other than GET and POST: ValueError leaves the try, no except
\* clause catches it
AttemptUnsupported ==
    /\ AtLoopHead
    /\ method \notin {"GET", "POST"}
    /\ attempt' = attempt + 1
    /\ outcome' = Some(Raise("ValueError"))
    /\ UNCHANGED <<method, retry_count, last_error, sleeps, sent>>
    /\ UNCHANGED <<codecVars, maskVars, envVars, tokVars>>

\* the exchange succeeds: raise_for_status passes, response.json() is returned
AttemptOk ==
    /\ AtLoopHead
    /\ method \in {"GET", "POST"}
    /\ attempt' = attempt + 1
    /\ sent' = Append(sent, "ok")
    /\ outcome' = Some(Return("json"))
    /\ UNCHANGED <<method, retry_count, last_error, sleeps>>
    /\ UNCHANGED <<codecVars, maskVars, envVars, tokVars>>

\* the answer has a 4xx / 5xx status: raise_for_status raises HTTPError
AttemptHTTPError ==
    /\ AtLoopHead
    /\ method \in {"GET", "POST"}
    /\ attempt' = attempt + 1
    /\ sent' = Append(sent, "HTTPError")
    /\ outcome' = Some(HTTPErrorRaised)
    /\ UNCHANGED <<method, retry_count, last_error, sleeps>>
    /\ UNCHANGED <<codecVars, maskVars, envVars, tokVars>>

\* the exchange fails with ConnectionError or Timeout: last_error is set,
\* the loop sleeps unless this was its last pass, and after the last pass
\* the raise that follows the loop is reached
AttemptFailed(e) ==
    /\ AtLoopHead
    /\ method \in {"GET", "POST"}
    /\ attempt' = attempt + 1
    /\ sent' = Append(sent, e)
    /\ last_error' = Some(e)
    /\ sleeps' = IF attempt < retry_count - 1 THEN sleeps + 1 ELSE sleeps
    /\ outcome' = IF InRange(attempt + 1, retry_count) THEN None
                  ELSE Some(FailedToConnect)
    /\ UNCHANGED <<method, retry_count>>
    /\ UNCHANGED <<codecVars, maskVars, envVars, tokVars>>

AttemptConnectionError == AttemptFailed("ConnectionError")

AttemptTimeout == AttemptFailed("Timeout")

NextClient ==
    \/ RequestNoPass
    \/ AttemptUnsupported
    \/ AttemptOk
    \/ AttemptHTTPError
    \/ AttemptConnectionError
    \/ AttemptTimeout

\* every exchange ends (it has a timeout) and every sleep ends
SpecClient == InitClient /\ [][NextClient]_vars /\ WF_vars(NextClient)

Last(seq) == seq[Len(seq)]

TransportFailures == {"ConnectionError", "Timeout"}

\* retry_count attempts have been made and each failed in transport
AllAttemptsFailed ==
    Len(sent) = retry_count /\ \A k \in DOMAIN sent : sent[k] \in TransportFailures

\* what the claim says of the state of a request
RetryProtocolState ==
    /\ Len(sent) <= retry_count
    /\ attempt <= retry_count
    /\ outcome = Some(FailedToConnect) => AllAttemptsFailed
    /\ (AllAttemptsFailed /\ outcome # None) => outcome = Some(FailedToConnect)
    /\ (sent # <<>> /\ Last(sent) = "HTTPError") => outcome = Some(HTTPErrorRaised)
    /\ (sent # <<>> /\ Last(sent) = "ok") => outcome = Some(Return("json"))
    /\ \A k \in DOMAIN sent : k < Len(sent) => sent[k] \in TransportFailures

----------------------------------------------------------------------------
(* Further claims about the codec, checked under SpecCodec *)

\* the indices that decode_action maps to the kind t
KindRegion(t) ==
    CASE t \in {"SHOP_REROLL", "SHOP_END", "SKIP_BLIND", "SKIP_PACK"} ->
            {simple_actions[t]}
      [] t = "SORT_HAND" ->
            {simple_actions["SORT_HAND_RANK"], simple_actions["SORT_HAND_SUIT"]}
      [] t = "PLAY_HAND" -> play_hand_offset..(discard_offset - 1)
      [] t = "DISCARD" -> discard_offset..(shop_buy_offset - 1)
      [] t = "SHOP_BUY" -> shop_buy_offset..(sell_joker_offset - 1)
      [] t = "SHOP_SELL_JOKER" -> sell_joker_offset..(pack_select_offset - 1)
      [] t = "SELECT_PACK_ITEM" -> pack_select_offset..(blind_select_offset - 1)
      [] t = "SELECT_BLIND" -> blind_select_offset..(action_space_size - 1)
      [] OTHER -> {}

\* C24 (as claimed): whenever encode_action returns an index, the index is
\* inside [0, ACTION_SPACE_SIZE) and inside the region of the action's own
\* kind, and decode_action maps it to an action of that kind.
C24_EncodeInOwnRegion ==
    (cFirst = "encode" /\ IsSome(cEnc) /\ Returned(cEnc[1])) =>
        LET idx == cEnc[1].value[1]
        IN  /\ 0 <= idx /\ idx < get_action_space_size
            /\ idx \in KindRegion(cAct[1].type)
            /\ IsSome(cDec) => /\ Returned(cDec[1])
                               /\ cDec[1].value[1].type = cAct[1].type

----------------------------------------------------------------------------
(* Further claims about the mask, checked under SpecMask *)

\* the kinds of the legal actions handed to the mask
LegalKinds == {mLegal[k].type : k \in DOMAIN mLegal}

\* C25: every index at which the mask is true is accepted by decode_action,
\* decodes to an action whose kind is among the kinds of the legal set, and
\* is the index that encode_action gives for the decoded action.
C25_MaskCodecAgree ==
    IsSome(mMask) =>
        \A i \in mMask[1].true :
            LET r == decode_action(i)
            IN  /\ Returned(r)
                /\ r.value[1].type \in LegalKinds
                /\ encode_action(r.value[1]) = Return(i)

\* C25 happens: a mask made with a hand of more than ten cards and no
\* declared available list marks card selections, all of them decodable
C25_Witness ==
    /\ IsSome(mMask)
    /\ mHand > MAX_HAND_SIZE
    /\ \E k \in DOMAIN mLegal :
          /\ mLegal[k].type = "PLAY_HAND"
          /\ TruthyDict(mLegal[k].params.card_indices)
          /\ mLegal[k].params.card_indices[1].available = None
    /\ \E i \in mMask[1].true : i >= play_hand_offset /\ i < discard_offset

\* the card-selection actions of kind t in the legal set
CardActionsOf(legal, t) == {k \in CardActions(legal) : legal[k].type = t}

\* the bounds of a card-selection action, with the defaults of the code
MinSelect(a) == Get(a.params.card_indices[1].min_select, 1)
MaxSelect(a) == Get(a.params.card_indices[1].max_select, 5)

\* the marked indices of kind t's region
MarkedIn(mask, t) ==
    {i \in mask.true : RegionOffset(t) <= i /\ i < RegionOffset(t) + NumBitmaps}

\* C26 (as claimed): when every PLAY_HAND / DISCARD action of the legal set
\* has min_select >= 1, every index marked in the PLAY_HAND or DISCARD
\* region decodes to a selection whose number of positions is within the
\* min_select..max_select of an action of that kind, and the empty selection
\* is not marked, whatever the available list and hand_size are.
C26_SelectionWithinBounds ==
    (IsSome(mMask) /\ \A k \in CardActions(mLegal) : MinSelect(mLegal[k]) >= 1) =>
        \A t \in CardKinds :
            \A i \in MarkedIn(mMask[1], t) :
                LET n == Len(decode_action(i).value[1].params.card_indices[1])
                IN  /\ i # RegionOffset(t)
                    /\ n >= 1
                    /\ \E k \in CardActionsOf(mLegal, t) :
                          MinSelect(mLegal[k]) <= n /\ n <= MaxSelect(mLegal[k])

----------------------------------------------------------------------------
(* Further claims about the controller's episode state, checked under Spec *)

\* a step call is made and returns
StepReturns == step_calls' = step_calls + 1 /\ ret'.raised = "None"

\* the cumulative reward the caller was last told: 0 before any call, the
\* episode_reward of the info the last call returned otherwise
LastReported == IF ret.call = "init" THEN 0 ELSE ret.info[1].episode_reward

\* C27 (as claimed): the episode_reward of the info a reset returns is 0, and
\* the episode_reward of the info a step returns is the one last reported
\* plus the reward this step returns, also when the step ended in
\* connectivity failure and returned -100; so the reported value is the sum
\* of the rewards returned since the last reset.
C27_EpisodeRewardIsSum ==
    /\ []((ret.call = "reset" /\ ret.raised = "None") => ret.info[1].episode_reward = 0)
    /\ [][(StepReturns /\ ret.raised = "None") =>
            ret'.info[1].episode_reward = LastReported + ret'.reward[1]]_vars

\* a step call is made and fails in the codec: it raises before anything is
\* sent to the bridge
StepCodecError ==
    /\ step_calls' = step_calls + 1
    /\ ret'.raised # "None"
    /\ bridge' = <<>>

\* C28 (as claimed): a step call that fails with a codec error leaves the
\* step counter, the cumulative reward, the stored snapshot and the stored
\* legal-action set as they were, and submits nothing to the bridge.
C28_CodecErrorNoChange ==
    [][StepCodecError =>
        /\ step_count' = step_count
        /\ episode_reward' = episode_reward
        /\ current_state' = current_state
        /\ current_legal' = current_legal]_vars

\* the stored legal-action set is the one the bridge gave with the stored
\* snapshot: in the same accepted result (which may carry none), or in the
\* same re-fetch
SameExchange(cs, cl, exchanges) ==
    /\ IsSome(cs)
    /\ \/ cl = Some(LegalFor(cs[1]))
       \/ exchanges = <<"action:ok">> /\ cl = None

\* C29 (as claimed): a step either leaves the stored snapshot and the stored
\* legal-action set both unchanged or replaces both from the same bridge
\* exchange, also when the connection is lost part-way through the re-fetch;
\* and an action mask in the info of a step is the mask of the legal-action
\* set that belongs to the stored snapshot.
C29_SnapshotLegalTogether ==
    /\ [][step_calls' = step_calls + 1 =>
            \/ current_state' = current_state /\ current_legal' = current_legal
            \/ SameExchange(current_state', current_legal', bridge')]_vars
    /\ []((ret.call = "step" /\ ret.raised = "None"
           /\ IsSome(current_state) /\ IsSome(ret.info[1].action_mask)) =>
            ret.info[1].action_mask
                = Some(MaskOf[LegalFor(current_state[1]), current_state[1].hand_len]))

\* C30 (as claimed): the info of a step that ended in connectivity failure
\* reports connected false; the info of a reset that follows such a step and
\* obtained a snapshot reports connected true; and a completed step that
\* follows a call whose info reported connected true reports it true.
C30_ConnectedFollowsEpisode ==
    /\ []((StepLostConnection /\ ret.raised = "None") => ~ret.info[1].connected)
    /\ [][(StepLostConnection /\ ret'.call = "reset" /\ ResetFetched'
           /\ ret'.raised = "None") => ret'.info[1].connected]_vars
    /\ [][(StepReturns /\ StepCompleted' /\ ret.call # "init" /\ ret.raised = "None"
           /\ ret.info[1].connected) => ret'.info[1].connected]_vars

====
